---- MODULE Spec2Model ----
(***************************************************************************)
(* Model of streamlit_muuto_lookup_app.py: one run of the Streamlit script *)
(* (load mapping sheet, validate columns, parse pasted ids, look them up,  *)
(* reshape the matched rows, show metrics and offer the export).           *)
(* Text is modelled as a sequence of one-character strings.                *)
(***************************************************************************)
EXTENDS Integers, Sequences, FiniteSets, TLC

\* ------------------------------------------------------------------ bounds
MaxLen == 4      \* longest pasted text enumerated character by character
MaxIds == 2      \* most words in a pasted text built from WordPool
MaxRows == 2     \* most rows in a generated reference sheet

\* ------------------------------------------------------------ text helpers
Range(s) == {s[i] : i \in DOMAIN s}

\* characters str.strip() and the regex class \s treat as whitespace
Whitespace == {" ", "\n", "\t"}

\* variant: the semicolon is left out of the delimiter class
DelimsNoSemicolon == Whitespace \cup {","}

\* the delimiter class [\s,;] of the split in parse_pasted_ids
Delims == Whitespace \cup {",", ";"}

RECURSIVE LStrip(_, _)
LStrip(s, chars) ==
    IF s # <<>> /\ Head(s) \in chars THEN LStrip(Tail(s), chars) ELSE s

RECURSIVE RStrip(_, _)
RStrip(s, chars) ==
    IF s # <<>> /\ s[Len(s)] \in chars
    THEN RStrip(SubSeq(s, 1, Len(s) - 1), chars)
    ELSE s

\* str.strip(chars): removes every leading and trailing character in chars
StripChars(s, chars) == RStrip(LStrip(s, chars), chars)

\* str.strip()
Strip(s) == StripChars(s, Whitespace)

\* re.split(r"[\s,;]+", s): a leading or trailing delimiter run yields an
\* empty first or last piece; the empty text yields one empty piece
RECURSIVE SplitAcc(_, _, _)
SplitAcc(s, cur, out) ==
    IF s = <<>> THEN Append(out, cur)
    ELSE IF Head(s) \in Delims
         THEN SplitAcc(LStrip(s, Delims), <<>>, Append(out, cur))
         ELSE SplitAcc(Tail(s), Append(cur, Head(s)), out)

ReSplit(s) == SplitAcc(s, <<>>, <<>>)

\* t.strip().strip('"').strip("'")
CleanToken(t) == StripChars(StripChars(Strip(t), {"\""}), {"'"})

\* the comprehension of line 126: the filter tests t.strip(), the value is
\* the token with its quotes stripped
RECURSIVE CleanedFrom(_)
CleanedFrom(tokens) ==
    IF tokens = <<>> THEN <<>>
    ELSE IF Strip(Head(tokens)) # <<>>
         THEN <<CleanToken(Head(tokens))>> \o CleanedFrom(Tail(tokens))
         ELSE CleanedFrom(Tail(tokens))

Cleaned(raw) == CleanedFrom(ReSplit(Strip(raw)))

\* the seen/out loop of lines 128-132
RECURSIVE DedupAcc(_, _, _)
DedupAcc(cleaned, seen, out) ==
    IF cleaned = <<>> THEN out
    ELSE IF Head(cleaned) \notin seen
         THEN DedupAcc(Tail(cleaned), seen \cup {Head(cleaned)},
                       Append(out, Head(cleaned)))
         ELSE DedupAcc(Tail(cleaned), seen, out)

\* variant: the seen set is never consulted, every token is kept
DedupNone(cleaned) == cleaned

Dedup(cleaned) == DedupAcc(cleaned, {}, <<>>)

parse_pasted_ids(raw) ==
    IF raw = <<>> THEN <<>> ELSE Dedup(Cleaned(raw))


\* --------------------------------------------------------------- data frame
\* A frame is [cols |-> sequence of column names, rows |-> sequence of rows],
\* a row being a function from the column names to cells.
None == <<"None">>          \* pandas None/NaN cell; no text cell equals it
NoCol == "None"             \* dict.get() miss: no actual column

EmptyFrame == [cols |-> <<>>, rows |-> <<>>]

\* DataFrame.empty: no rows or no columns
IsEmpty(df) == Len(df.rows) = 0 \/ Len(df.cols) = 0

OUTPUT_HEADERS ==
    <<"New Item No.", "OLD Item-variant", "Ean no.",
      "Description", "Family", "Category">>

LowerNames ==
    <<"new item no.", "old item-variant", "ean no.",
      "description", "family", "category">>

UpperNames ==
    <<"NEW ITEM NO.", "OLD ITEM-VARIANT", "EAN NO.",
      "DESCRIPTION", "FAMILY", "CATEGORY">>

\* str.lower() on the column names that occur
Lower(name) ==
    IF \E i \in 1..6 : name \in {OUTPUT_HEADERS[i], LowerNames[i], UpperNames[i]}
    THEN LowerNames[CHOOSE i \in 1..6 :
                        name \in {OUTPUT_HEADERS[i], LowerNames[i], UpperNames[i]}]
    ELSE IF name = "Notes" THEN "notes" ELSE name

\* lower_map.get(key) for lower_map = {c.lower(): c for c in df.columns}:
\* a later column overwrites an earlier one with the same lower-cased name
LowerMapGet(cols, key) ==
    LET hits == {i \in DOMAIN cols : Lower(cols[i]) = key}
    IN IF hits = {} THEN NoCol
       ELSE cols[CHOOSE i \in hits : \A j \in hits : j <= i]

map_case_insensitive(df, required) ==
    [name \in Range(required) |-> LowerMapGet(df.cols, Lower(name))]

\* colmap.get(h) is truthy
Mapped(colmap, h) == h \in DOMAIN colmap /\ colmap[h] # NoCol /\ colmap[h] # ""

\* df[h] = None: h becomes (or is overwritten as) an all-None column
WithNoneColumn(df, h) ==
    [cols |-> IF h \in Range(df.cols) THEN df.cols ELSE Append(df.cols, h),
     rows |-> [k \in DOMAIN df.rows |->
                 [c \in Range(df.cols) \cup {h} |->
                    IF c = h THEN None ELSE df.rows[k][c]]]]

\* the loop of lines 180-187: returns the frame with the missing headers
\* added as None columns, and the list of columns to select
RECURSIVE SelectLoop(_, _, _, _)
SelectLoop(df, colmap, cols, i) ==
    IF i > Len(OUTPUT_HEADERS) THEN [df |-> df, cols |-> cols]
    ELSE LET h == OUTPUT_HEADERS[i]
         IN IF Mapped(colmap, h) /\ colmap[h] \in Range(df.cols)
            THEN SelectLoop(df, colmap, Append(cols, colmap[h]), i + 1)
            ELSE SelectLoop(WithNoneColumn(df, h), colmap, Append(cols, h), i + 1)

\* df[cols].copy()
Project(df, cols) ==
    [cols |-> cols,
     rows |-> [k \in DOMAIN df.rows |-> [c \in Range(cols) |-> df.rows[k][c]]]]

\* variant: the rename back to the canonical headers is left out
RenamedNot(colmap, c) == c

\* out.rename(columns=rename_map) with
\* rename_map = {colmap[h]: h for h in OUTPUT_HEADERS if colmap.get(h) and colmap[h] != h}
Renamed(colmap, c) ==
    LET hs == {i \in 1..Len(OUTPUT_HEADERS) :
                  /\ Mapped(colmap, OUTPUT_HEADERS[i])
                  /\ colmap[OUTPUT_HEADERS[i]] # OUTPUT_HEADERS[i]
                  /\ colmap[OUTPUT_HEADERS[i]] = c}
    IN IF hs = {} THEN c
       ELSE OUTPUT_HEADERS[CHOOSE i \in hs : \A j \in hs : j <= i]

Rename(df, colmap) ==
    [cols |-> [i \in DOMAIN df.cols |-> Renamed(colmap, df.cols[i])],
     rows |-> [k \in DOMAIN df.rows |->
                 [n \in {Renamed(colmap, c) : c \in Range(df.cols)} |->
                    df.rows[k][CHOOSE c \in Range(df.cols) : Renamed(colmap, c) = n]]]]

select_order_and_rename(df, colmap) ==
    LET sel == SelectLoop(df, colmap, <<>>, 1)
    IN Rename(Project(sel.df, sel.cols), colmap)

\* read_mapping_from_gsheets: a failed fetch gives the empty frame, otherwise
\* every cell is stripped
read_mapping_from_gsheets(src) ==
    IF ~src.available THEN EmptyFrame
    ELSE [cols |-> src.cols,
          rows |-> [k \in DOMAIN src.rows |->
                      [c \in Range(src.cols) |-> Strip(src.rows[k][c])]]]

\* work[col] = work[col].astype(str).str.strip()
StripColumn(df, col) ==
    [df EXCEPT !.rows = [k \in DOMAIN df.rows |->
                           [df.rows[k] EXCEPT ![col] = Strip(@)]]]

\* variant: all-digit values are compared with their leading zeros stripped
Digits == {"0", "1", "2", "3", "4", "5", "6", "7", "8", "9"}

Normalized(t) ==
    IF t # <<>> /\ Range(t) \subseteq Digits
    THEN (IF LStrip(t, {"0"}) = <<>> THEN <<"0">> ELSE LStrip(t, {"0"}))
    ELSE t

IsInNormalized(cell, idlist) ==
    Normalized(cell) \in {Normalized(idlist[i]) : i \in DOMAIN idlist}

\* Series.isin(ids): exact membership of the cell among the ids
IsIn(cell, idlist) == cell \in Range(idlist)

\* variant: both key columns must match
MatchMaskBoth(df, oc, ec, idlist) ==
    [k \in DOMAIN df.rows |->
        IsIn(df.rows[k][oc], idlist) /\ IsIn(df.rows[k][ec], idlist)]

\* mask = work[old_col].isin(ids) | work[ean_col].isin(ids)
MatchMask(df, oc, ec, idlist) ==
    [k \in DOMAIN df.rows |->
        IsIn(df.rows[k][oc], idlist) \/ IsIn(df.rows[k][ec], idlist)]

\* work.loc[mask]: the selected rows, in frame order
RECURSIVE FilterRows(_, _, _)
FilterRows(rows, m, k) ==
    IF k > Len(rows) THEN <<>>
    ELSE (IF m[k] THEN <<rows[k]>> ELSE <<>>) \o FilterRows(rows, m, k + 1)

Loc(df, m) == [cols |-> df.cols, rows |-> FilterRows(df.rows, m, 1)]

\* variant: only the legacy codes of the matched rows count as found
MatchedKeysOldOnly(df, oc, ec) == {df.rows[k][oc] : k \in DOMAIN df.rows}

\* set(matches[old_col]...) | set(matches[ean_col]...)
MatchedKeys(df, oc, ec) ==
    {df.rows[k][oc] : k \in DOMAIN df.rows} \cup
    {df.rows[k][ec] : k \in DOMAIN df.rows}

\* [x for x in ids if x not in matched_keys]
NotFound(idlist, keys) ==
    LET Missing(x) == x \notin keys IN SelectSeq(idlist, Missing)


\* ------------------------------------------------------------------ inputs
\* characters of the pasted texts that are enumerated exhaustively
Chars == {"A", "a", " ", ",", ";", "\"", "'"}

Texts(n) == UNION {[1..k -> Chars] : k \in 0..n}

\* words of the pasted texts that are looked up in the generated sheets
WordPool ==
    { <<"O","1">>, <<"E","2">>,
      <<"1","2","3">>, <<"0","1","2","3">>, <<"\"","\"">> }

RECURSIVE JoinWith(_, _)
JoinWith(words, sep) ==
    IF words = <<>> THEN <<>>
    ELSE IF Len(words) = 1 THEN words[1]
    ELSE words[1] \o sep \o JoinWith(Tail(words), sep)

WordTexts(n) ==
    {JoinWith(w, <<" ">>) : w \in UNION {[1..k -> WordPool] : k \in 0..n}}

\* the texts quoted in the specification, and pastes of one id per line
SampleTexts ==
    { <<"O","1"," ","E","2"," ","Z","Z","Z">>,
      <<"A",","," ","a",","," ","A">>,
      <<"\"","A","B","C","1","2","3","\"">>,
      <<"X","1",",","O","1",";","0","0","1","2","3">>,
      <<"X","1","\n","E","2","\n">> }

\* rows of the generated sheets: new number, legacy code, EAN as stored
KeyRow(n, o, e) == [new |-> n, old |-> o, ean |-> e]

RowPool ==
    { KeyRow(<<"N","1">>, <<"O","1">>, <<"E","1">>),
      KeyRow(<<"N","2">>, <<"O","1">>, <<"E","2">>),
      KeyRow(<<"N","3">>, <<"X","1">>, <<>>),
      KeyRow(<<"N","4">>, <<" ","X","1">>, <<"E","2"," ">>),
      KeyRow(<<"N","5">>, <<"0","0","1","2","3">>, <<"E","5">>) }

SampleRows ==
    << KeyRow(<<"N","1">>, <<"O","1">>, <<"E","1">>),
       KeyRow(<<"N","2">>, <<"O","1">>, <<"E","2">>) >>

KeyRowLists(n) == UNION {[1..k -> RowPool] : k \in 0..n}

\* how one header is spelled among the sheet's columns
Variants == {"absent", "canon", "lower", "upper", "both"}

ColumnsOfVariant(i, v) ==
    CASE v = "absent" -> <<>>
      [] v = "canon"  -> <<OUTPUT_HEADERS[i]>>
      [] v = "lower"  -> <<LowerNames[i]>>
      [] v = "upper"  -> <<UpperNames[i]>>
      [] v = "both"   -> <<LowerNames[i], UpperNames[i]>>

RECURSIVE ColumnsFrom(_, _)
ColumnsFrom(cfg, i) ==
    IF i > Len(OUTPUT_HEADERS) THEN <<"Notes">>
    ELSE ColumnsOfVariant(i, cfg[i]) \o ColumnsFrom(cfg, i + 1)

ColumnsOf(cfg) == ColumnsFrom(cfg, 1)

AllCanon == [i \in 1..6 |-> "canon"]
NoEan    == [AllCanon EXCEPT ![3] = "absent"]

\* the cell a sheet row holds in column c
CellFor(c, kr) ==
    CASE Lower(c) = "new item no."     -> kr.new
      [] Lower(c) = "old item-variant" -> kr.old
      [] Lower(c) = "ean no."          -> kr.ean
      [] Lower(c) = "description"      -> <<"d"," ">>
      [] Lower(c) = "family"           -> <<"f">>
      [] Lower(c) = "category"         -> <<"c">>
      [] OTHER                         -> <<>>

Sheet(cfg, keyrows) ==
    [available |-> TRUE,
     cols |-> ColumnsOf(cfg),
     rows |-> [k \in DOMAIN keyrows |->
                 [c \in Range(ColumnsOf(cfg)) |-> CellFor(c, keyrows[k])]]]

Unavailable == [available |-> FALSE, cols |-> <<>>, rows |-> <<>>]


\* ------------------------------------------------------------------- state
VARIABLES
    sheet,        \* what the sheet URL delivers (input)
    raw_input,    \* the text area's content (input)
    pc,           \* position of the script run
    mapping_df,   \* line 251
    colmap,       \* line 259
    old_col,      \* line 270
    ean_col,      \* line 271
    work,         \* lines 273-275
    ids,          \* line 294
    mask,         \* line 306
    matches,      \* line 307
    not_found,    \* line 313
    ordered,      \* line 316
    metrics,      \* the two st.metric values, lines 321 and 323
    messages,     \* st.error / st.warning / st.info shown so far
    listed,       \* the not-found list shown by st.code, line 331
    table,        \* the frame shown by st.dataframe, line 341
    download      \* the frame offered by st.download_button, line 350

vars == <<sheet, raw_input, pc, mapping_df, colmap, old_col, ean_col, work,
          ids, mask, matches, not_found, ordered, metrics, messages, listed,
          table, download>>

NoMetrics == [provided |-> -1, matches |-> -1]

Derived0 ==
    /\ pc = "load"
    /\ mapping_df = EmptyFrame
    /\ colmap = <<>>
    /\ old_col = NoCol
    /\ ean_col = NoCol
    /\ work = EmptyFrame
    /\ ids = <<>>
    /\ mask = <<>>
    /\ matches = EmptyFrame
    /\ not_found = <<>>
    /\ ordered = EmptyFrame
    /\ metrics = NoMetrics
    /\ messages = {}
    /\ listed = <<>>
    /\ table = EmptyFrame
    /\ download = EmptyFrame

\* generated sheets against pasted words
InitLookup ==
    /\ sheet \in {Unavailable} \cup
                 {Sheet(cfg, kr) : cfg \in {AllCanon, NoEan},
                                   kr \in KeyRowLists(MaxRows)}
    /\ raw_input \in WordTexts(MaxIds) \cup SampleTexts

\* every spelling of the sheet's header against the specification's example
InitColumns ==
    /\ sheet \in {Sheet(cfg, SampleRows) : cfg \in [1..6 -> Variants]}
    /\ raw_input = <<"O","1"," ","E","2"," ","Z","Z","Z">>

\* every short text against the specification's example sheet
InitTexts ==
    /\ sheet = Sheet(AllCanon, SampleRows)
    /\ raw_input \in Texts(MaxLen)

Init == (InitLookup \/ InitColumns \/ InitTexts) /\ Derived0

\* ----------------------------------------------------------------- actions
required == OUTPUT_HEADERS \o <<"OLD Item-variant", "Ean no.">>

\* variant: the run only stops when both lookup columns are missing
KeysMissingBoth(cm) == ~Mapped(cm, "OLD Item-variant") /\ ~Mapped(cm, "Ean no.")

\* line 262: a required lookup column is missing
KeysMissing(cm) == ~Mapped(cm, "OLD Item-variant") \/ ~Mapped(cm, "Ean no.")

\* variant: the second metric takes the other axis of the frame
MetricsColumns(idlist, ord) == [provided |-> Len(idlist), matches |-> Len(ord.cols)]

\* lines 321 and 323
Metrics(idlist, ord) == [provided |-> Len(idlist), matches |-> Len(ord.rows)]

\* lines 250-255
LoadMapping ==
    /\ pc = "load"
    /\ mapping_df' = read_mapping_from_gsheets(sheet)
    /\ messages' = messages
                   \cup (IF sheet.available THEN {} ELSE {"read_failed"})
                   \cup (IF IsEmpty(mapping_df') THEN {"cannot_load"} ELSE {})
    /\ pc' = IF IsEmpty(mapping_df') THEN "stopped" ELSE "validate"
    /\ UNCHANGED <<sheet, raw_input, colmap, old_col, ean_col, work, ids, mask,
                   matches, not_found, ordered, metrics, listed, table, download>>

\* lines 258-267
ValidateColumns ==
    /\ pc = "validate"
    /\ colmap' = map_case_insensitive(mapping_df, required)
    /\ messages' = messages
                   \cup (IF KeysMissing(colmap') THEN {"missing_columns"} ELSE {})
    /\ pc' = IF KeysMissing(colmap') THEN "stopped" ELSE "prepare"
    /\ UNCHANGED <<sheet, raw_input, mapping_df, old_col, ean_col, work, ids,
                   mask, matches, not_found, ordered, metrics, listed, table,
                   download>>

\* lines 270-275
PrepareWork ==
    /\ pc = "prepare"
    /\ old_col' = colmap["OLD Item-variant"]
    /\ ean_col' = colmap["Ean no."]
    /\ work' = StripColumn(StripColumn(mapping_df, old_col'), ean_col')
    /\ pc' = "parse"
    /\ UNCHANGED <<sheet, raw_input, mapping_df, colmap, ids, mask, matches,
                   not_found, ordered, metrics, messages, listed, table,
                   download>>

\* line 294
ParseInput ==
    /\ pc = "parse"
    /\ ids' = parse_pasted_ids(raw_input)
    /\ pc' = "results"
    /\ UNCHANGED <<sheet, raw_input, mapping_df, colmap, old_col, ean_col, work,
                   mask, matches, not_found, ordered, metrics, messages, listed,
                   table, download>>

\* lines 301-302
NoInput ==
    /\ pc = "results"
    /\ ids = <<>>
    /\ messages' = messages \cup {"paste_ids"}
    /\ pc' = "done"
    /\ UNCHANGED <<sheet, raw_input, mapping_df, colmap, old_col, ean_col, work,
                   ids, mask, matches, not_found, ordered, metrics, listed,
                   table, download>>

\* lines 303-313
Lookup ==
    /\ pc = "results"
    /\ ids # <<>>
    /\ mask' = MatchMask(work, old_col, ean_col, ids)
    /\ matches' = Loc(work, mask')
    /\ not_found' = NotFound(ids, MatchedKeys(matches', old_col, ean_col))
    /\ pc' = "select"
    /\ UNCHANGED <<sheet, raw_input, mapping_df, colmap, old_col, ean_col, work,
                   ids, ordered, metrics, messages, listed, table, download>>

\* line 316
SelectColumns ==
    /\ pc = "select"
    /\ ordered' = select_order_and_rename(matches, colmap)
    /\ pc' = "feedback"
    /\ UNCHANGED <<sheet, raw_input, mapping_df, colmap, old_col, ean_col, work,
                   ids, mask, matches, not_found, metrics, messages, listed,
                   table, download>>

\* lines 319-336
Feedback ==
    /\ pc = "feedback"
    /\ metrics' = Metrics(ids, ordered)
    /\ listed' = not_found
    /\ messages' = messages
                   \cup (IF not_found # <<>> THEN {"not_matched"} ELSE {})
                   \cup (IF IsEmpty(ordered) THEN {"no_match"} ELSE {})
    /\ pc' = IF IsEmpty(ordered) THEN "stopped" ELSE "export"
    /\ UNCHANGED <<sheet, raw_input, mapping_df, colmap, old_col, ean_col, work,
                   ids, mask, matches, not_found, ordered, table, download>>

\* lines 340-356
Export ==
    /\ pc = "export"
    /\ table' = ordered
    /\ download' = ordered
    /\ pc' = "done"
    /\ UNCHANGED <<sheet, raw_input, mapping_df, colmap, old_col, ean_col, work,
                   ids, mask, matches, not_found, ordered, metrics, messages,
                   listed>>

Next ==
    \/ LoadMapping
    \/ ValidateColumns
    \/ PrepareWork
    \/ ParseInput
    \/ NoInput
    \/ Lookup
    \/ SelectColumns
    \/ Feedback
    \/ Export

Spec == Init /\ [][Next]_vars


\* ------------------------------------------------------- phases of the run
NoMatchStop == pc = "stopped" /\ "no_match" \in messages

\* line 294 has run
Parsed == pc \in {"results", "select", "feedback", "export", "done"} \/ NoMatchStop

\* line 294 has just run: ids holds the list parse_pasted_ids returned
JustParsed == pc = "results"

\* lines 306-313 have run
LookedUp ==
    pc \in {"select", "feedback", "export"} \/ (pc = "done" /\ ids # <<>>) \/ NoMatchStop

\* line 316 has run
Selected ==
    pc \in {"feedback", "export"} \/ (pc = "done" /\ ids # <<>>) \/ NoMatchStop

\* lines 319-336 have run
Reported == pc = "export" \/ (pc = "done" /\ ids # <<>>) \/ NoMatchStop

\* ------------------------------------------------------ vocabulary of claims
Quotes == {"\"", "'"}

HasColumn(key) == \E i \in DOMAIN sheet.cols : Lower(sheet.cols[i]) = key

\* the sheet can be loaded and carries both lookup columns
SheetUsable ==
    /\ sheet.available
    /\ Len(sheet.rows) > 0
    /\ Len(sheet.cols) > 0
    /\ HasColumn("old item-variant")
    /\ HasColumn("ean no.")

\* the trimmed legacy code and EAN of sheet row k
OldKey(k) == Strip(sheet.rows[k][old_col])
EanKey(k) == Strip(sheet.rows[k][ean_col])

\* identifier x equals a key of sheet row k
Hits(x, k) == x = OldKey(k) \/ x = EanKey(k)

\* the sheet rows some identifier equals
HitRows == {k \in DOMAIN sheet.rows : \E i \in DOMAIN ids : Hits(ids[i], k)}

\* the identifiers equal to a key of some sheet row
HitIds == {i \in DOMAIN ids : \E k \in DOMAIN sheet.rows : Hits(ids[i], k)}

\* the n-th smallest element of a set of row positions
RECURSIVE Nth(_, _)
Nth(S, n) ==
    LET m == CHOOSE x \in S : \A y \in S : x <= y
    IN IF n = 1 THEN m ELSE Nth(S \ {m}, n - 1)

\* a result row whose every field is null
AllNone(r) == \A h \in DOMAIN r : r[h] = None

ExampleText == <<"O","1"," ","E","2"," ","Z","Z","Z">>

\* the end-to-end example of the specification: rows N1/O1/E1 and N2/O1/E2,
\* pasted text "O1 E2 ZZZ"
IsExample ==
    /\ raw_input = ExampleText
    /\ Len(sheet.rows) = 2
    /\ OldKey(1) = <<"O","1">> /\ EanKey(1) = <<"E","1">>
    /\ OldKey(2) = <<"O","1">> /\ EanKey(2) = <<"E","2">>


\* ---------------------------------------------------------------- tokenizer
FirstIndex(seq, x) ==
    CHOOSE i \in DOMAIN seq : seq[i] = x /\ \A j \in 1..(i - 1) : seq[j] # x

\* C5: parse_pasted_ids returns a list without equal elements, holding
\* exactly the cleaned tokens of the text in the order of their first
\* occurrence; equality is exact, so "A, a, A" yields A, a.
C5_DedupFirstSeen ==
    Parsed =>
        LET cl == Cleaned(raw_input)
        IN /\ \A i, j \in DOMAIN ids : i # j => ids[i] # ids[j]
           /\ Range(ids) = Range(cl)
           /\ \A i, j \in DOMAIN ids :
                 i < j => FirstIndex(cl, ids[i]) < FirstIndex(cl, ids[j])
           /\ raw_input = <<"A",","," ","a",","," ","A">>
                 => ids = << <<"A">>, <<"a">> >>

C5_Witness ==
    /\ Parsed
    /\ raw_input = <<"A",","," ","a",","," ","A">>
    /\ ids = << <<"A">>, <<"a">> >>

\* C6: no element of the list returned by parse_pasted_ids is the empty
\* string, and the empty text yields the empty list.
C6_NoEmptyToken ==
    Parsed =>
        /\ \A i \in DOMAIN ids : ids[i] # <<>>
        /\ raw_input = <<>> => ids = <<>>

\* separators a list is joined with: mixtures of space, comma, semicolon
\* and newline
Seps ==
    { <<" ">>, <<",">>, <<";">>, <<"\n">>, <<",", " ">>, <<";", "\n">> }

RECURSIVE JoinMixed(_, _)
JoinMixed(words, seps) ==
    IF words = <<>> THEN <<>>
    ELSE IF Len(words) = 1 THEN words[1]
    ELSE words[1] \o seps[1] \o JoinMixed(Tail(words), Tail(seps))

GapSeps(n) == [1..(IF n > 1 THEN n - 1 ELSE 0) -> Seps]

\* C7: joining a list returned by parse_pasted_ids with any mixture of
\* separators and parsing the joined text returns the same list.
C7_RoundTrip ==
    JustParsed =>
        \A seps \in GapSeps(Len(ids)) :
            parse_pasted_ids(JoinMixed(ids, seps)) = ids


\* the elements a round trip preserves: they begin and end with a character
\* that is not a quote
Unquoted(t) == t # <<>> /\ Head(t) \notin Quotes /\ t[Len(t)] \notin Quotes

\* C7 (amended): a list returned by parse_pasted_ids whose elements all begin
\* and end with a non-quote character is returned unchanged when it is joined
\* with any mixture of separators and parsed again.
C7_RoundTripUnquoted ==
    (JustParsed /\ \A i \in DOMAIN ids : Unquoted(ids[i])) =>
        \A seps \in GapSeps(Len(ids)) :
            parse_pasted_ids(JoinMixed(ids, seps)) = ids

C7_Witness ==
    /\ JustParsed
    /\ raw_input = <<"X","1",",","O","1",";","0","0","1","2","3">>
    /\ Len(ids) = 3
    /\ \A i \in DOMAIN ids : Unquoted(ids[i])

\* ------------------------------------------------------------------ halting
\* C3: a sheet that is unavailable, empty or lacks the legacy-code or the EAN
\* column (names compared case-insensitively) stops the run with an error
\* before the ids are parsed or matched and with nothing shown or offered;
\* parsing and matching are only reached with a loaded frame whose two key
\* columns were found.
C3_FatalHalts ==
    /\ ~SheetUsable =>
          /\ pc \in {"load", "validate", "stopped"}
          /\ ids = <<>> /\ mask = <<>> /\ not_found = <<>>
          /\ matches = EmptyFrame /\ ordered = EmptyFrame
          /\ metrics = NoMetrics
          /\ table = EmptyFrame /\ download = EmptyFrame
          /\ pc = "stopped" =>
                messages \cap {"cannot_load", "missing_columns"} # {}
    /\ pc \in {"parse", "results", "select", "feedback", "export", "done"} =>
          /\ SheetUsable
          /\ ~IsEmpty(mapping_df)
          /\ Lower(colmap["OLD Item-variant"]) = "old item-variant"
          /\ Lower(colmap["Ean no."]) = "ean no."
          /\ colmap["OLD Item-variant"] \in Range(mapping_df.cols)
          /\ colmap["Ean no."] \in Range(mapping_df.cols)

C3_Witness ==
    /\ pc = "stopped"
    /\ sheet.available
    /\ HasColumn("old item-variant")
    /\ ~HasColumn("ean no.")
    /\ "missing_columns" \in messages
    /\ ordered = EmptyFrame

\* ----------------------------------------------------------------- matching
\* C9: a sheet row is selected exactly when its trimmed legacy code or its
\* trimmed EAN is equal, character by character, to an input identifier; a
\* row with key 00123 is selected neither by 123 nor by 0123; the identifiers
\* reported as not found are exactly those that select no row.
C9_ExactMatch ==
    LookedUp =>
        /\ DOMAIN mask = DOMAIN sheet.rows
        /\ \A k \in DOMAIN sheet.rows :
              mask[k] <=> \E i \in DOMAIN ids : Hits(ids[i], k)
        /\ \A k \in DOMAIN sheet.rows :
              ( /\ OldKey(k) = <<"0","0","1","2","3">>
                /\ Range(ids) \subseteq { <<"1","2","3">>, <<"0","1","2","3">> } )
              => ~mask[k]
        /\ not_found = SelectSeq(ids, LAMBDA x :
                           \A k \in DOMAIN sheet.rows : ~Hits(x, k))

C9_Witness ==
    /\ LookedUp
    /\ ids = << <<"1","2","3">>, <<"0","1","2","3">> >>
    /\ \E k \in DOMAIN sheet.rows :
          OldKey(k) = <<"0","0","1","2","3">> /\ ~mask[k]
    /\ not_found = ids

\* C10: a row is only ever selected through a non-empty key value that
\* equals an input identifier; an empty legacy code or EAN is never a key.
C10_EmptyKeyNeverSelects ==
    LookedUp =>
        \A k \in DOMAIN sheet.rows :
            mask[k] =>
                \E i \in DOMAIN ids :
                    \/ ids[i] = OldKey(k) /\ OldKey(k) # <<>>
                    \/ ids[i] = EanKey(k) /\ EanKey(k) # <<>>


\* ------------------------------------------------------------- result table
\* the result rows that carry identifier x in a key field
RowsFor(x) ==
    {n \in DOMAIN ordered.rows :
        \/ ordered.rows[n]["OLD Item-variant"] = x
        \/ ordered.rows[n]["Ean no."] = x}

Count(seq, x) == Cardinality({j \in DOMAIN seq : seq[j] = x})

\* C1: every identifier appears in the result table: one that equals no
\* legacy code and no EAN as exactly one row with every field null, one that
\* matches in at least one matched row.
C1_EveryIdInTable ==
    Reported =>
        /\ \A i \in DOMAIN ids : i \in HitIds => RowsFor(ids[i]) # {}
        /\ Cardinality({n \in DOMAIN ordered.rows : AllNone(ordered.rows[n])})
              = Len(ids) - Cardinality(HitIds)

\* C1 (amended): no identifier is dropped from what the run shows: one that
\* matches is a key of at least one row of the result table and is not
\* listed as not found; one that equals no legacy code and no EAN is listed
\* exactly once in the not-found list and gets no row in the result table,
\* which holds matched sheet rows only.
C1_EveryIdShown ==
    Reported =>
        /\ \A i \in DOMAIN ids :
              IF i \in HitIds
              THEN RowsFor(ids[i]) # {} /\ Count(listed, ids[i]) = 0
              ELSE RowsFor(ids[i]) = {} /\ Count(listed, ids[i]) = 1
        /\ \A n \in DOMAIN ordered.rows : ~AllNone(ordered.rows[n])

C1_Witness ==
    /\ Reported
    /\ IsExample
    /\ listed = << <<"Z","Z","Z">> >>
    /\ RowsFor(<<"E","2">>) # {}
    /\ RowsFor(<<"Z","Z","Z">>) = {}

\* the (identifier, sheet row) pairs in which the identifier equals a key
HitPairs ==
    {p \in (DOMAIN ids) \X (DOMAIN sheet.rows) : Hits(ids[p[1]], p[2])}

\* C2: the result holds one matched entry per (identifier, matching row)
\* pair; the example yields four rows.
C2_EntryPerPair ==
    Reported =>
        /\ Cardinality({n \in DOMAIN ordered.rows : ~AllNone(ordered.rows[n])})
              = Cardinality(HitPairs)
        /\ IsExample => Len(ordered.rows) = 4

\* C2 (amended): the result holds one entry per matching sheet row, in sheet
\* order, with the six output fields and no input identifier: two rows
\* sharing a legacy code both appear when it is looked up, a row hit by two
\* identifiers appears once; the example yields the two rows N1/O1/E1 and
\* N2/O1/E2.
C2_EntryPerRow ==
    Reported =>
        /\ Len(ordered.rows) = Cardinality(HitRows)
        /\ \A n \in DOMAIN ordered.rows :
              /\ DOMAIN ordered.rows[n] = Range(OUTPUT_HEADERS)
              /\ ordered.rows[n]["OLD Item-variant"] = OldKey(Nth(HitRows, n))
              /\ ordered.rows[n]["Ean no."] = EanKey(Nth(HitRows, n))
        /\ IsExample =>
              /\ Len(ordered.rows) = 2
              /\ ordered.rows[1]["Ean no."] = <<"E","1">>
              /\ ordered.rows[2]["Ean no."] = <<"E","2">>

C2_Witness ==
    /\ Reported
    /\ IsExample
    /\ Cardinality(HitPairs) = 3
    /\ Len(ordered.rows) = 2

\* C4: identifiers provided is the number of unique tokens and matches is
\* the number of unique identifiers with a matching row; 3 and 3 in the
\* example.
C4_MatchesCountIds ==
    Reported =>
        /\ metrics.provided = Cardinality(Range(Cleaned(raw_input)))
        /\ metrics.matches = Cardinality(HitIds)
        /\ IsExample => metrics = [provided |-> 3, matches |-> 3]

\* C4 (amended): identifiers provided is the number of unique tokens and
\* matches is the number of matched sheet rows, the rows of the result
\* table; 3 and 2 in the example.
C4_MatchesCountRows ==
    Reported =>
        /\ metrics.provided = Cardinality(Range(Cleaned(raw_input)))
        /\ metrics.matches = Cardinality(HitRows)
        /\ metrics.matches = Len(ordered.rows)
        /\ IsExample => metrics = [provided |-> 3, matches |-> 2]

C4_Witness ==
    /\ Reported
    /\ IsExample
    /\ metrics = [provided |-> 3, matches |-> 2]
    /\ Cardinality(HitIds) = 2

\* the sheet columns a header resolves to, compared case-insensitively
Spellings(h) == {c \in Range(sheet.cols) : Lower(c) = Lower(h)}

\* C8: the frame returned by select_order_and_rename has exactly the six
\* OUTPUT_HEADERS columns in their order and under their canonical names; a
\* header takes its values from a sheet column of the same name up to case,
\* and a header the sheet lacks is present and null in every row.
C8_SchemaStable ==
    Selected =>
        /\ ordered.cols = OUTPUT_HEADERS
        /\ Len(ordered.rows) = Len(matches.rows)
        /\ \A n \in DOMAIN ordered.rows :
              /\ DOMAIN ordered.rows[n] = Range(OUTPUT_HEADERS)
              /\ \A h \in Range(OUTPUT_HEADERS) :
                    IF Spellings(h) = {}
                    THEN ordered.rows[n][h] = None
                    ELSE \E c \in Spellings(h) :
                            ordered.rows[n][h] = matches.rows[n][c]

C8_Witness ==
    /\ Selected
    /\ Len(ordered.rows) = 2
    /\ Spellings("Family") = {}
    /\ Spellings("Description") = {"DESCRIPTION"}
    /\ ordered.cols = OUTPUT_HEADERS
    /\ ordered.rows[1]["Family"] = None
    /\ ordered.rows[1]["Description"] = <<"d">>

====
